---- MODULE Spec2Model ----
(***************************************************************************)
(* A model of smartlead_consolidated_git.py: the SmartLead lead deletion   *)
(* pipeline (fetch campaigns, filter and analyse, select, back up, delete, *)
(* notify), its HTTP retry helper, and the remote service as a             *)
(* nondeterministic collaborator that answers each call.                   *)
(*                                                                         *)
(* Fields that are only carried along and never decide anything (campaign  *)
(* name, the IST renderings of the timestamps, the reply rate, the backup  *)
(* timestamp, execution_time) are left out of the records.                 *)
(***************************************************************************)
EXTENDS Integers, Sequences, FiniteSets, TLC

(***************************************************************************)
(* Program constants.                                                      *)
(***************************************************************************)
MAX_RETRIES == 5
DAYS_WITHOUT_ACTIVITY == 30
EXCLUDE_CLIENT_IDS == {1598}

\* Python's None: the absent response of send_request.
None == -1
\* pandas' NaN: an empty cell of a CSV read back by pd.read_csv.
NA == -2
\* A timestamp string that datetime.strptime rejects.
BadTimestamp == -3
\* An attempt that ends in a transport error (ConnectionError, Timeout).
TransportError == 0

(***************************************************************************)
(* Bounds of the model.                                                    *)
(***************************************************************************)
MaxCampaigns == 2
MaxLeads == 1
MaxTarget == 2
Today == 100
MaxBackup == 2
MaxRows == 3
MaxCount == 2

(***************************************************************************)
(* The remote service's answers.                                           *)
(***************************************************************************)
Statuses == {TransportError, 200, 204, 404, 500}

\* The answers of the remote to the attempts of one call: `first` to the
\* first attempt, `rest` to every later one.
Script(first, rest) == [a \in 1..MAX_RETRIES |-> IF a = 1 THEN first ELSE rest]

Scripts == {Script(first, rest) : first \in Statuses, rest \in Statuses}

\* response.raise_for_status(): raises HTTPError for a 4xx or 5xx status; a
\* transport error raised by requests.request itself.
AttemptFails(status) == status = TransportError \/ status >= 400

\* send_request from attempt `attempt` on: the response of the first attempt
\* that does not fail, None once MAX_RETRIES attempts have failed.
RECURSIVE SendRequestFrom(_, _)
SendRequestFrom(script, attempt) ==
    IF attempt > MAX_RETRIES THEN None
    ELSE IF AttemptFails(script[attempt])
         THEN SendRequestFrom(script, attempt + 1)
         ELSE script[attempt]

SendRequest(script) == SendRequestFrom(script, 1)

\* bool(response): None is falsy, and requests.Response is truthy iff ok
\* (status below 400).
Truthy(response) == response # None /\ response < 400

(***************************************************************************)
(* Campaigns, leads and the exports.                                       *)
(***************************************************************************)
ClientIds == {5} \cup EXCLUDE_CLIENT_IDS
CampaignStatuses == {"PAUSED", "COMPLETED", "ACTIVE"}
Cutoff == Today - DAYS_WITHOUT_ACTIVITY
CreatedAts == {Cutoff - 10, Cutoff, Cutoff + 1, BadTimestamp}

\* The attributes of the campaigns the pipeline runs over: one eligible
\* campaign and one for each way of not being eligible.
CampaignKinds ==
    { [client_id |-> 5,    status |-> "PAUSED",    created_at |-> Cutoff - 10],
      [client_id |-> 1598, status |-> "COMPLETED", created_at |-> Cutoff - 10],
      [client_id |-> 5,    status |-> "ACTIVE",    created_at |-> Cutoff],
      [client_id |-> 5,    status |-> "PAUSED",    created_at |-> Cutoff + 1],
      [client_id |-> 5,    status |-> "COMPLETED", created_at |-> BadTimestamp] }

\* Every combination of the attributes.
CampaignAttrs == [client_id : ClientIds, status : CampaignStatuses, created_at : CreatedAts]

\* The lists GET /campaigns can answer with: campaign k has id k.
WithIds(kinds) ==
    [k \in 1..Len(kinds) |->
        [id |-> k, client_id |-> kinds[k].client_id, status |-> kinds[k].status,
         created_at |-> kinds[k].created_at]]

SeqsUpTo(S, n) == UNION {[1..m -> S] : m \in 0..n}

CampaignLists(kinds) == {WithIds(l) : l \in SeqsUpTo(kinds, MaxCampaigns)}

\* The bodies a leads export can have: lead k has id k and a reply count.
ReplyCounts == {0, 1}
LeadLists ==
    {[k \in 1..Len(l) |-> [id |-> k, reply_count |-> l[k]]] : l \in SeqsUpTo(ReplyCounts, MaxLeads)}

\* export_leads_csv: the file written (its rows), or None when the response
\* is absent, not a 200 or not text/csv.  fs_ok false is os.makedirs,
\* os.remove or open raising OSError, which export_leads_csv lets through.
ExportLeadsCsv(fs_ok, response, is_csv, body) ==
    IF ~fs_ok THEN [raised |-> TRUE, file |-> FALSE, rows |-> <<>>]
    ELSE IF Truthy(response) /\ response = 200 /\ is_csv
         THEN [raised |-> FALSE, file |-> TRUE, rows |-> body]
         ELSE [raised |-> FALSE, file |-> FALSE, rows |-> <<>>]

\* Everything one call of export_leads_csv can come to.
ExportResults ==
    {ExportLeadsCsv(fs_ok, SendRequest(script), is_csv, body) :
        fs_ok \in BOOLEAN, script \in Scripts, is_csv \in BOOLEAN, body \in LeadLists}

\* df[df['reply_count'] == 0]: NaN == 0 is False.
NoReply(lead) == lead.reply_count = 0

\* An analysis that also keeps the leads whose reply count is missing.
AnalyzeKeepsMissing(rows) ==
    LET keep(lead) == lead.reply_count = 0 \/ lead.reply_count = NA
        no_reply_leads == SelectSeq(rows, keep)
    IN  [no_reply_leads |-> no_reply_leads,
         total_leads |-> Len(rows),
         no_reply_count |-> Len(no_reply_leads)]

\* analyze_campaign_leads: (no_reply_leads, total_leads, no_reply_count).
AnalyzeCampaignLeads(rows) ==
    LET no_reply_leads == SelectSeq(rows, NoReply)
    IN  [no_reply_leads |-> no_reply_leads,
         total_leads |-> Len(rows),
         no_reply_count |-> Len(no_reply_leads)]


(***************************************************************************)
(* The state: the position of main / run_full_process, the processor's     *)
(* fields and locals, the files written, and what was sent out.            *)
(***************************************************************************)
VARIABLES
    pc,                 \* where main / run_full_process stands
    processor,          \* whether main has created the SmartLeadProcessor
    target_leads,       \* TARGET_LEADS of this run's configuration
    campaigns,          \* the list fetch_all_campaigns returned
    idx,                \* the position of the running stage's loop
    report,             \* the rows of all_campaigns_analysis_*.csv
    filter_log,         \* per input campaign, what the filter loop met
    filtered_campaigns, \* filter_and_analyze_campaigns' list
    selected_campaigns, \* the rows select_campaigns_for_deletion returned
    all_deletion_leads, \* create_deletion_backup's accumulator
    backup_df,          \* the backup set handed to delete_leads
    backup_file,        \* leads_deletion_backup_*.csv
    success_count,      \* delete_leads' local
    failed_count,       \* delete_leads' local
    execution_stats,    \* self.execution_stats
    delete_calls,       \* the DELETE calls issued, in order
    answers,            \* the remote's last answer to each DELETE call
    passes,             \* how many times delete_leads has been entered
    emails,             \* the notifications attempted, in order
    exports,            \* the lead exports requested, in order, and their results
    request,            \* a call of send_request followed attempt by attempt
    exit_code           \* the process's exit status (None while running)

vars == <<pc, processor, target_leads, campaigns, idx, report, filter_log, filtered_campaigns,
          selected_campaigns, all_deletion_leads, backup_df, backup_file,
          success_count, failed_count, execution_stats, delete_calls, answers,
          passes, emails, exports, request, exit_code>>

\* SmartLeadProcessor.__init__'s execution_stats.
InitStats ==
    [campaigns_fetched |-> 0, campaigns_filtered |-> 0, campaigns_selected |-> 0,
     total_leads_exported |-> 0, no_reply_leads_found |-> 0, leads_backed_up |-> 0,
     leads_deleted_success |-> 0, leads_deleted_failed |-> 0]

NoFile == [written |-> FALSE, rows |-> <<>>]

\* No call of send_request is being followed.
NoRequest == [answers |-> <<>>, response |-> None, returned |-> FALSE]

TargetValues == 1..MaxTarget

Init ==
    /\ pc = "main"
    /\ processor = FALSE
    /\ target_leads \in TargetValues
    /\ campaigns = <<>>
    /\ idx = 0
    /\ report = <<>>
    /\ filter_log = <<>>
    /\ filtered_campaigns = <<>>
    /\ selected_campaigns = <<>>
    /\ all_deletion_leads = <<>>
    /\ backup_df = <<>>
    /\ backup_file = NoFile
    /\ success_count = 0
    /\ failed_count = 0
    /\ execution_stats = InitStats
    /\ delete_calls = <<>>
    /\ answers = <<>>
    /\ passes = 0
    /\ emails = <<>>
    /\ exports = <<>>
    /\ request = NoRequest
    /\ exit_code = None

(***************************************************************************)
(* main: validate_environment and setup_logging, then the processor.       *)
(***************************************************************************)
\* setup_ok false: validate_environment or setup_logging raises; main's
\* handler prints and exits 1 before any processor exists.
Main ==
    /\ pc = "main"
    /\ \E setup_ok \in BOOLEAN :
          IF setup_ok
          THEN pc' = "fetch" /\ processor' = TRUE /\ exit_code' = exit_code
          ELSE pc' = "exit" /\ processor' = FALSE /\ exit_code' = 1
    /\ UNCHANGED <<request, exports, target_leads, campaigns, idx, report, filter_log, filtered_campaigns,
                   selected_campaigns, all_deletion_leads, backup_df, backup_file,
                   success_count, failed_count, execution_stats, delete_calls, answers,
                   passes, emails>>

(***************************************************************************)
(* Step 1: fetch_all_campaigns.                                            *)
(***************************************************************************)
\* fetch_all_campaigns: the parsed body of a truthy response, else [].  A
\* truthy response without a JSON body (204) makes response.json() raise.
FetchResult(response, listed) ==
    IF ~Truthy(response) THEN [raised |-> FALSE, campaigns |-> <<>>]
    ELSE IF response = 200 THEN [raised |-> FALSE, campaigns |-> listed]
    ELSE [raised |-> TRUE, campaigns |-> <<>>]

\* Step 1 without its "if not campaigns: raise".
FetchAllCampaignsNoCheck ==
    /\ pc = "fetch"
    /\ \E script \in Scripts, listed \in CampaignLists(CampaignKinds) :
          LET got == FetchResult(SendRequest(script), listed)
          IN  /\ campaigns' = got.campaigns
              /\ IF got.raised
                 THEN pc' = "failed" /\ idx' = idx
                 ELSE pc' = "filter" /\ idx' = 1
    /\ UNCHANGED <<request, exports, processor, target_leads, report, filter_log, filtered_campaigns,
                   selected_campaigns, all_deletion_leads, backup_df, backup_file,
                   success_count, failed_count, execution_stats, delete_calls, answers,
                   passes, emails, exit_code>>

\* run_full_process, step 1: "if not campaigns: raise".
FetchAllCampaigns ==
    /\ pc = "fetch"
    /\ \E script \in Scripts, listed \in CampaignLists(CampaignKinds) :
          LET got == FetchResult(SendRequest(script), listed)
          IN  /\ campaigns' = got.campaigns
              /\ IF got.raised \/ got.campaigns = <<>>
                 THEN pc' = "failed" /\ idx' = idx
                 ELSE pc' = "filter" /\ idx' = 1
    /\ UNCHANGED <<request, exports, processor, target_leads, report, filter_log, filtered_campaigns,
                   selected_campaigns, all_deletion_leads, backup_df, backup_file,
                   success_count, failed_count, execution_stats, delete_calls, answers,
                   passes, emails, exit_code>>

(***************************************************************************)
(* Step 2: filter_and_analyze_campaigns, one campaign of the loop a step.  *)
(***************************************************************************)
\* datetime.strptime on created_at / updated_at.
TimestampsParse(campaign) == campaign.created_at # BadTimestamp

\* An include_campaign without the client exclusion.
IncludeCampaignAnyClient(campaign) ==
    /\ campaign.status \in {"PAUSED", "COMPLETED"}
    /\ campaign.created_at <= Cutoff

\* include_campaign.
IncludeCampaign(campaign) ==
    /\ campaign.client_id \notin EXCLUDE_CLIENT_IDS
    /\ campaign.status \in {"PAUSED", "COMPLETED"}
    /\ campaign.created_at <= Cutoff

\* The row writer.writerow writes for a campaign.
ReportRow(campaign, include, total_leads, no_reply_leads) ==
    [Campaign_ID |-> campaign.id, Status |-> campaign.status,
     Client_ID |-> campaign.client_id,
     Included_in_Filter |-> IF include THEN "Yes" ELSE "No",
     Total_Leads |-> total_leads, No_Reply_Leads |-> no_reply_leads]

\* A loop body whose counts are not reset per campaign: a failed export
\* leaves the counts of an earlier campaign in the row.
FilterBodyStaleCounts(campaign, export) ==
    IF ~TimestampsParse(campaign)
    THEN [appended |-> <<>>, rows |-> <<>>, met |-> "parse_error"]
    ELSE IF ~IncludeCampaign(campaign)
    THEN [appended |-> <<>>, rows |-> <<ReportRow(campaign, FALSE, 0, 0)>>,
          met |-> "not_included"]
    ELSE IF export.raised
    THEN [appended |-> <<campaign>>, rows |-> <<>>, met |-> "export_raised"]
    ELSE IF ~export.file
    THEN [appended |-> <<campaign>>, rows |-> <<ReportRow(campaign, TRUE, 1, 1)>>,
          met |-> "export_none"]
    ELSE LET a == AnalyzeCampaignLeads(export.rows)
         IN  [appended |-> <<campaign>>,
              rows |-> <<ReportRow(campaign, TRUE, a.total_leads, a.no_reply_count)>>,
              met |-> "analyzed"]

\* One pass of the loop body over `campaign`, its export (made only for an
\* included campaign) coming to `export`: what is appended to
\* filtered_campaigns and what is written to the report.  Any exception
\* leaves the body through "except Exception", after the append and before
\* writer.writerow.
FilterBody(campaign, export) ==
    IF ~TimestampsParse(campaign)
    THEN [appended |-> <<>>, rows |-> <<>>, met |-> "parse_error"]
    ELSE IF ~IncludeCampaign(campaign)
    THEN [appended |-> <<>>, rows |-> <<ReportRow(campaign, FALSE, 0, 0)>>,
          met |-> "not_included"]
    ELSE IF export.raised
    THEN [appended |-> <<campaign>>, rows |-> <<>>, met |-> "export_raised"]
    ELSE IF ~export.file
    THEN [appended |-> <<campaign>>, rows |-> <<ReportRow(campaign, TRUE, 0, 0)>>,
          met |-> "export_none"]
    ELSE LET a == AnalyzeCampaignLeads(export.rows)
         IN  [appended |-> <<campaign>>,
              rows |-> <<ReportRow(campaign, TRUE, a.total_leads, a.no_reply_count)>>,
              met |-> "analyzed"]

NoExport == [raised |-> FALSE, file |-> FALSE, rows |-> <<>>]

\* The entry of the exports log for a call of export_leads_csv.
Requested(stage, campaign_id, export) ==
    [stage |-> stage, Campaign_ID |-> campaign_id, raised |-> export.raised,
     file |-> export.file, rows |-> export.rows]

\* The exports the loop body can meet for `campaign`: none is requested
\* unless the campaign parses and is included.
ExportsFor(campaign) ==
    IF TimestampsParse(campaign) /\ IncludeCampaign(campaign)
    THEN ExportResults ELSE {NoExport}

FilterCampaign ==
    /\ pc = "filter"
    /\ idx <= Len(campaigns)
    /\ \E export \in ExportsFor(campaigns[idx]) :
          LET body == FilterBody(campaigns[idx], export)
          IN  /\ filtered_campaigns' = filtered_campaigns \o body.appended
              /\ report' = report \o body.rows
              /\ filter_log' = Append(filter_log, body.met)
              /\ exports' = IF body.appended = <<>> THEN exports
                            ELSE Append(exports, Requested("filter", campaigns[idx].id, export))
    /\ idx' = idx + 1
    /\ UNCHANGED <<request, pc, processor, target_leads, campaigns, selected_campaigns, all_deletion_leads,
                   backup_df, backup_file, success_count, failed_count, execution_stats,
                   delete_calls, answers, passes, emails, exit_code>>

\* The end of filter_and_analyze_campaigns, and run_full_process's
\* "if not filtered_campaigns: raise".
FilterReturn ==
    /\ pc = "filter"
    /\ idx > Len(campaigns)
    /\ execution_stats' = [execution_stats EXCEPT
                              !.campaigns_fetched = Len(campaigns),
                              !.campaigns_filtered = Len(filtered_campaigns)]
    /\ pc' = IF filtered_campaigns = <<>> THEN "failed" ELSE "select"
    /\ UNCHANGED <<request, exports, processor, target_leads, campaigns, idx, report, filter_log, filtered_campaigns,
                   selected_campaigns, all_deletion_leads, backup_df, backup_file,
                   success_count, failed_count, delete_calls, answers, passes, emails,
                   exit_code>>

(***************************************************************************)
(* Step 3: select_campaigns_for_deletion.                                  *)
(***************************************************************************)
\* campaigns_df[campaigns_df["Included in Filter"] == "Yes"]: the index
\* labels (row positions of the report read back) that are kept.
IncludedIndex(rows) == {i \in 1..Len(rows) : rows[i].Included_in_Filter = "Yes"}

\* The orders in which the elements of S can be laid out.
Orderings(S) ==
    {p \in [1..Cardinality(S) -> S] : \A j, k \in 1..Cardinality(S) : j # k => p[j] # p[k]}

\* sort_values(by="No Reply Leads", ascending=False) with pandas' default
\* kind="quicksort", which is not stable: every order of the index labels
\* that is descending by count can come out, rows of equal count in any
\* order.
SortValues(rows) ==
    {p \in Orderings(IncludedIndex(rows)) :
        \A j, k \in 1..Len(p) :
            j < k => rows[p[j]].No_Reply_Leads >= rows[p[k]].No_Reply_Leads}

RECURSIVE SelectLoopStrict(_, _, _, _, _)
\* The selection loop stopping only once the target is exceeded.
SelectLoopStrict(rows, order, k, selected_indices, cumulative_leads) ==
    IF k > Len(order) THEN [indices |-> selected_indices, cumulative |-> cumulative_leads]
    ELSE LET no_reply_count == rows[order[k]].No_Reply_Leads
         IN  IF no_reply_count <= 0
             THEN SelectLoopStrict(rows, order, k + 1, selected_indices, cumulative_leads)
             ELSE IF cumulative_leads + no_reply_count > target_leads
                  THEN [indices |-> Append(selected_indices, order[k]),
                        cumulative |-> cumulative_leads + no_reply_count]
                  ELSE SelectLoopStrict(rows, order, k + 1,
                                        Append(selected_indices, order[k]),
                                        cumulative_leads + no_reply_count)

RECURSIVE SelectLoop(_, _, _, _, _)
\* The selection loop over campaigns_sorted from position k on.
SelectLoop(rows, order, k, selected_indices, cumulative_leads) ==
    IF k > Len(order) THEN [indices |-> selected_indices, cumulative |-> cumulative_leads]
    ELSE LET no_reply_count == rows[order[k]].No_Reply_Leads
         IN  IF no_reply_count <= 0
             THEN SelectLoop(rows, order, k + 1, selected_indices, cumulative_leads)
             ELSE IF cumulative_leads + no_reply_count >= target_leads
                  THEN [indices |-> Append(selected_indices, order[k]),
                        cumulative |-> cumulative_leads + no_reply_count]
                  ELSE SelectLoop(rows, order, k + 1, Append(selected_indices, order[k]),
                                  cumulative_leads + no_reply_count)

\* campaigns_sorted.loc[selected_indices].
Loc(rows, indices) == [k \in 1..Len(indices) |-> rows[indices[k]]]

\* A step 3 that raises when the selection falls short of the target.
SelectCampaignsAbortOnShortfall ==
    /\ pc = "select"
    /\ \E order \in SortValues(report) :
          LET chosen == SelectLoop(report, order, 1, <<>>, 0)
          IN  /\ selected_campaigns' = Loc(report, chosen.indices)
              /\ IF Len(selected_campaigns') = 0 \/ chosen.cumulative < target_leads
                 THEN pc' = "failed" /\ idx' = idx
                 ELSE pc' = "backup" /\ idx' = 1
    /\ execution_stats' = [execution_stats EXCEPT
                              !.campaigns_selected = Len(selected_campaigns')]
    /\ UNCHANGED <<request, exports, processor, target_leads, campaigns, report, filter_log,
                   filtered_campaigns, all_deletion_leads, backup_df, backup_file,
                   success_count, failed_count, delete_calls, answers, passes, emails,
                   exit_code>>

\* select_campaigns_for_deletion, and run_full_process's
\* "if len(selected_campaigns) == 0: raise".
SelectCampaignsForDeletion ==
    /\ pc = "select"
    /\ \E order \in SortValues(report) :
          selected_campaigns' = Loc(report, SelectLoop(report, order, 1, <<>>, 0).indices)
    /\ execution_stats' = [execution_stats EXCEPT
                              !.campaigns_selected = Len(selected_campaigns')]
    /\ IF Len(selected_campaigns') = 0
       THEN pc' = "failed" /\ idx' = idx
       ELSE pc' = "backup" /\ idx' = 1
    /\ UNCHANGED <<request, exports, processor, target_leads, campaigns, report, filter_log, filtered_campaigns,
                   all_deletion_leads, backup_df, backup_file, success_count,
                   failed_count, delete_calls, answers, passes, emails, exit_code>>

(***************************************************************************)
(* Step 4: create_deletion_backup, one selected campaign of the loop a     *)
(* step, then the write of the backup file.                                *)
(***************************************************************************)
\* no_reply_df with the "Campaign ID" column added.
Tagged(leads, campaign_id) ==
    [k \in 1..Len(leads) |->
        [id |-> leads[k].id, reply_count |-> leads[k].reply_count,
         Campaign_ID |-> campaign_id]]

\* A loop body that requests the export but analyses the rows of the
\* campaign's filter-stage export.
BackupBodyStaleExport(export) ==
    /\ pc = "backup"
    /\ idx <= Len(selected_campaigns)
    /\ exports' = Append(exports, Requested("backup", selected_campaigns[idx].Campaign_ID, export))
    /\ LET stale == CHOOSE e \in {exports[k] : k \in 1..Len(exports)} :
                        e.stage = "filter" /\ e.Campaign_ID = selected_campaigns[idx].Campaign_ID
           a == AnalyzeCampaignLeads(stale.rows)
       IN  IF export.raised
           THEN /\ pc' = "failed"
                /\ UNCHANGED <<idx, all_deletion_leads, execution_stats>>
           ELSE IF ~export.file \/ a.no_reply_leads = <<>>
           THEN /\ idx' = idx + 1
                /\ UNCHANGED <<pc, all_deletion_leads, execution_stats>>
           ELSE /\ idx' = idx + 1
                /\ all_deletion_leads' = all_deletion_leads \o
                       Tagged(a.no_reply_leads, selected_campaigns[idx].Campaign_ID)
                /\ execution_stats' = [execution_stats EXCEPT
                       !.total_leads_exported = @ + a.total_leads,
                       !.no_reply_leads_found = @ + a.no_reply_count]
                /\ pc' = pc
    /\ UNCHANGED <<request, processor, target_leads, campaigns, report, filter_log, filtered_campaigns,
                   selected_campaigns, backup_df, backup_file, success_count,
                   failed_count, delete_calls, answers, passes, emails, exit_code>>

\* One pass of the loop body: the campaign is exported afresh and analysed.
\* An exception of export_leads_csv is not caught here and ends the run.
BackupBody(export) ==
    /\ pc = "backup"
    /\ idx <= Len(selected_campaigns)
    /\ exports' = Append(exports, Requested("backup", selected_campaigns[idx].Campaign_ID, export))
    /\ LET a == AnalyzeCampaignLeads(export.rows)
       IN  IF export.raised
           THEN /\ pc' = "failed"
                /\ UNCHANGED <<idx, all_deletion_leads, execution_stats>>
           ELSE IF ~export.file \/ a.no_reply_leads = <<>>
           THEN /\ idx' = idx + 1
                /\ UNCHANGED <<pc, all_deletion_leads, execution_stats>>
           ELSE /\ idx' = idx + 1
                /\ all_deletion_leads' = all_deletion_leads \o
                       Tagged(a.no_reply_leads, selected_campaigns[idx].Campaign_ID)
                /\ execution_stats' = [execution_stats EXCEPT
                       !.total_leads_exported = @ + a.total_leads,
                       !.no_reply_leads_found = @ + a.no_reply_count]
                /\ pc' = pc
    /\ UNCHANGED <<request, processor, target_leads, campaigns, report, filter_log, filtered_campaigns,
                   selected_campaigns, backup_df, backup_file, success_count,
                   failed_count, delete_calls, answers, passes, emails, exit_code>>

BackupCampaign == \E export \in ExportResults : BackupBody(export)

\* A to_csv that loses the last row of the backup set.
ToCsvDropsLast(rows) == [written |-> TRUE, rows |-> SubSeq(rows, 1, Len(rows) - 1)]

\* backup_df.to_csv(backup_csv): the rows on disk.
ToCsv(rows) == [written |-> TRUE, rows |-> rows]

\* The end of create_deletion_backup: pd.concat and to_csv (write_ok false:
\* to_csv raises), run_full_process's "if backup_df.empty: raise", and the
\* entry of delete_leads.
BackupReturn ==
    /\ pc = "backup"
    /\ idx > Len(selected_campaigns)
    /\ \E write_ok \in BOOLEAN :
          IF all_deletion_leads # <<>> /\ write_ok
          THEN /\ backup_file' = ToCsv(all_deletion_leads)
               /\ backup_df' = all_deletion_leads
               /\ execution_stats' = [execution_stats EXCEPT
                                         !.leads_backed_up = Len(all_deletion_leads)]
               /\ pc' = "delete"
               /\ idx' = 1
               /\ passes' = passes + 1
          ELSE /\ pc' = "failed"
               /\ UNCHANGED <<backup_file, backup_df, execution_stats, idx, passes>>
    /\ success_count' = 0
    /\ failed_count' = 0
    /\ UNCHANGED <<request, exports, processor, target_leads, campaigns, report, filter_log, filtered_campaigns,
                   selected_campaigns, all_deletion_leads, delete_calls, answers,
                   emails, exit_code>>

(***************************************************************************)
(* Step 5: delete_leads, one backup record of the loop a step.             *)
(***************************************************************************)
\* delete_single_lead on the response send_request returned.
DeleteSingleLead(response) ==
    IF Truthy(response) /\ response = 200 THEN TRUE
    ELSE IF Truthy(response) /\ response = 404 THEN TRUE
    ELSE FALSE

\* The remote's answer to the last attempt send_request made.
LastAnswer(script) ==
    IF SendRequest(script) # None THEN SendRequest(script) ELSE script[MAX_RETRIES]

\* Everything one DELETE call through send_request can come to.
DeleteResults ==
    {[response |-> SendRequest(script), answer |-> LastAnswer(script)] : script \in Scripts}

\* pd.isna(campaign_id) or pd.isna(lead_id).
MissingId(row) == row.Campaign_ID = NA \/ row.id = NA

\* A loop body without the check of the identifiers.
DeleteBodyNoIdCheck(result) ==
    /\ pc = "delete"
    /\ idx <= Len(backup_df)
    /\ LET row == backup_df[idx]
       IN  /\ delete_calls' = Append(delete_calls,
                   [Campaign_ID |-> row.Campaign_ID, id |-> row.id])
           /\ IF DeleteSingleLead(result.response)
              THEN success_count' = success_count + 1 /\ failed_count' = failed_count
              ELSE failed_count' = failed_count + 1 /\ success_count' = success_count
    /\ idx' = idx + 1
    /\ UNCHANGED <<request, exports, pc, processor, target_leads, campaigns, report, filter_log,
                   filtered_campaigns, selected_campaigns, all_deletion_leads, backup_df,
                   backup_file, execution_stats, passes, emails, exit_code>>

\* A loop body that skips a record with a missing identifier without
\* counting it.
DeleteBodySkipsMissing(result) ==
    /\ pc = "delete"
    /\ idx <= Len(backup_df)
    /\ LET row == backup_df[idx]
       IN  IF MissingId(row)
           THEN UNCHANGED <<success_count, failed_count, delete_calls>>
           ELSE /\ delete_calls' = Append(delete_calls,
                        [Campaign_ID |-> row.Campaign_ID, id |-> row.id])
                /\ IF DeleteSingleLead(result.response)
                   THEN success_count' = success_count + 1 /\ failed_count' = failed_count
                   ELSE failed_count' = failed_count + 1 /\ success_count' = success_count
    /\ idx' = idx + 1
    /\ UNCHANGED <<request, exports, pc, processor, target_leads, campaigns, report, filter_log, filtered_campaigns,
                   selected_campaigns, all_deletion_leads, backup_df, backup_file,
                   execution_stats, passes, emails, exit_code>>

\* One pass of the loop body over backup_df[idx], the DELETE call (made
\* only when both identifiers are present) coming to `result`.
DeleteBody(result) ==
    /\ pc = "delete"
    /\ idx <= Len(backup_df)
    /\ LET row == backup_df[idx]
       IN  IF MissingId(row)
           THEN /\ failed_count' = failed_count + 1
                /\ UNCHANGED <<success_count, delete_calls>>
           ELSE /\ delete_calls' = Append(delete_calls,
                        [Campaign_ID |-> row.Campaign_ID, id |-> row.id])
                /\ IF DeleteSingleLead(result.response)
                   THEN success_count' = success_count + 1 /\ failed_count' = failed_count
                   ELSE failed_count' = failed_count + 1 /\ success_count' = success_count
    /\ idx' = idx + 1
    /\ UNCHANGED <<request, exports, pc, processor, target_leads, campaigns, report, filter_log, filtered_campaigns,
                   selected_campaigns, all_deletion_leads, backup_df, backup_file,
                   execution_stats, passes, emails, exit_code>>

\* The DELETE calls a record can meet: none is issued when an identifier
\* is missing.
NoCall == [response |-> None, answer |-> None]

DeleteResultsFor(row) == IF MissingId(row) THEN {NoCall} ELSE DeleteResults

DeleteLead ==
    /\ pc = "delete"
    /\ idx <= Len(backup_df)
    /\ \E result \in DeleteResultsFor(backup_df[idx]) : DeleteBody(result)
    /\ UNCHANGED answers

\* The end of delete_leads.
DeleteReturn ==
    /\ pc = "delete"
    /\ idx > Len(backup_df)
    /\ execution_stats' =
          IF backup_df = <<>> THEN execution_stats
          ELSE [execution_stats EXCEPT !.leads_deleted_success = success_count,
                                       !.leads_deleted_failed = failed_count]
    /\ pc' = "complete"
    /\ UNCHANGED <<request, exports, processor, target_leads, campaigns, idx, report, filter_log, filtered_campaigns,
                   selected_campaigns, all_deletion_leads, backup_df, backup_file,
                   success_count, failed_count, delete_calls, answers, passes, emails,
                   exit_code>>

(***************************************************************************)
(* Step 6 and the failure path: the notifications, and main's end.         *)
(***************************************************************************)
\* A send_completion_email whose failure escapes into run_full_process's
\* handler, which then sends the failure email as well.
SendCompletionEmailRaises ==
    /\ pc = "complete"
    /\ emails' = Append(emails, "completion")
    /\ pc' = "failed"
    /\ UNCHANGED <<request, exports, processor, target_leads, campaigns, idx, report, filter_log,
                   filtered_campaigns, selected_campaigns, all_deletion_leads,
                   backup_df, backup_file, success_count, failed_count,
                   execution_stats, delete_calls, answers, passes, exit_code>>

\* send_completion_email (send_email catches whatever goes wrong in it).
SendCompletionEmail ==
    /\ pc = "complete"
    /\ emails' = Append(emails, "completion")
    /\ pc' = "done"
    /\ UNCHANGED <<request, exports, processor, target_leads, campaigns, idx, report, filter_log, filtered_campaigns,
                   selected_campaigns, all_deletion_leads, backup_df, backup_file,
                   success_count, failed_count, execution_stats, delete_calls, answers,
                   passes, exit_code>>

\* run_full_process's "except Exception": send_failure_email, then raise.
SendFailureEmail ==
    /\ pc = "failed"
    /\ emails' = Append(emails, "failure")
    /\ pc' = "raised"
    /\ UNCHANGED <<request, exports, processor, target_leads, campaigns, idx, report, filter_log, filtered_campaigns,
                   selected_campaigns, all_deletion_leads, backup_df, backup_file,
                   success_count, failed_count, execution_stats, delete_calls, answers,
                   passes, exit_code>>

\* main's end: exit(1) in its handler, or the normal return.
MainExit ==
    /\ pc \in {"raised", "done"}
    /\ exit_code' = IF pc = "raised" THEN 1 ELSE 0
    /\ pc' = "exit"
    /\ UNCHANGED <<request, exports, processor, target_leads, campaigns, idx, report, filter_log, filtered_campaigns,
                   selected_campaigns, all_deletion_leads, backup_df, backup_file,
                   success_count, failed_count, execution_stats, delete_calls, answers,
                   passes, emails>>

Next ==
    \/ Main
    \/ FetchAllCampaigns
    \/ FilterCampaign
    \/ FilterReturn
    \/ SelectCampaignsForDeletion
    \/ BackupCampaign
    \/ BackupReturn
    \/ DeleteLead
    \/ DeleteReturn
    \/ SendCompletionEmail
    \/ SendFailureEmail
    \/ MainExit

Spec == Init /\ [][Next]_vars

(***************************************************************************)
(* filter_and_analyze_campaigns and select_campaigns_for_deletion over     *)
(* every list of campaigns, of any attributes, that was fetched.           *)
(***************************************************************************)
FilterInit ==
    /\ pc = "filter"
    /\ processor = TRUE
    /\ target_leads \in TargetValues
    /\ campaigns \in CampaignLists(CampaignAttrs) \ {<<>>}
    /\ idx = 1
    /\ report = <<>>
    /\ filter_log = <<>>
    /\ filtered_campaigns = <<>>
    /\ selected_campaigns = <<>>
    /\ all_deletion_leads = <<>>
    /\ backup_df = <<>>
    /\ backup_file = NoFile
    /\ success_count = 0
    /\ failed_count = 0
    /\ execution_stats = InitStats
    /\ delete_calls = <<>>
    /\ answers = <<>>
    /\ passes = 0
    /\ emails = <<>>
    /\ exports = <<>>
    /\ request = NoRequest
    /\ exit_code = None

FilterNext ==
    \/ FilterCampaign
    \/ FilterReturn
    \/ SelectCampaignsForDeletion

FilterSpec == FilterInit /\ [][FilterNext]_vars

(***************************************************************************)
(* select_campaigns_for_deletion over the reports the filter can write.    *)
(***************************************************************************)
\* A report whose row k is campaign k with the given flag and count.
ReportOf(flags, counts) ==
    [k \in 1..Len(counts) |->
        [Campaign_ID |-> k, Status |-> "PAUSED", Client_ID |-> 5,
         Included_in_Filter |-> flags[k],
         Total_Leads |-> counts[k], No_Reply_Leads |-> counts[k]]]

\* A row that is not included records zero counts.
SelRows == {<<"No", 0>>} \cup {<<"Yes", n>> : n \in 0..MaxCount}

SelReports ==
    {ReportOf([k \in 1..Len(l) |-> l[k][1]], [k \in 1..Len(l) |-> l[k][2]]) :
        l \in SeqsUpTo(SelRows, MaxRows)}

\* End-to-end scenario 2 of the specification.
Scenario2Report == ReportOf(<<"Yes", "Yes", "Yes", "Yes">>, <<50, 30, 20, 5>>)

SelInit ==
    /\ pc = "select"
    /\ processor = TRUE
    /\ \/ report \in SelReports /\ target_leads \in TargetValues
       \/ report = Scenario2Report /\ target_leads = 70
    /\ campaigns = <<>>
    /\ idx = 1
    /\ filter_log = <<>>
    /\ filtered_campaigns = <<>>
    /\ selected_campaigns = <<>>
    /\ all_deletion_leads = <<>>
    /\ backup_df = <<>>
    /\ backup_file = NoFile
    /\ success_count = 0
    /\ failed_count = 0
    /\ execution_stats = InitStats
    /\ delete_calls = <<>>
    /\ answers = <<>>
    /\ passes = 0
    /\ emails = <<>>
    /\ exports = <<>>
    /\ request = NoRequest
    /\ exit_code = None

SelNext == SelectCampaignsForDeletion

SelSpec == SelInit /\ [][SelNext]_vars

(***************************************************************************)
(* delete_leads over every backup set, run against the remote and then run *)
(* a second time over the same set, every answer of the remote recorded.   *)
(***************************************************************************)
\* The backup sets: record k is lead k of campaign 1, either identifier
\* possibly an empty cell.
BackupSets ==
    {[k \in 1..Len(l) |->
        [id |-> IF l[k][1] THEN k ELSE NA, reply_count |-> 0,
         Campaign_ID |-> IF l[k][2] THEN 1 ELSE NA]] :
        l \in SeqsUpTo(BOOLEAN \X BOOLEAN, MaxBackup)}

DelInit ==
    /\ pc = "delete"
    /\ processor = TRUE
    /\ target_leads = 1
    /\ campaigns = <<>>
    /\ idx = 1
    /\ report = <<>>
    /\ filter_log = <<>>
    /\ filtered_campaigns = <<>>
    /\ selected_campaigns = <<>>
    /\ all_deletion_leads = <<>>
    /\ backup_df \in BackupSets
    /\ backup_file = ToCsv(backup_df)
    /\ success_count = 0
    /\ failed_count = 0
    /\ execution_stats = [InitStats EXCEPT !.leads_backed_up = Len(backup_df)]
    /\ delete_calls = <<>>
    /\ answers = <<>>
    /\ passes = 1
    /\ emails = <<>>
    /\ exports = <<>>
    /\ request = NoRequest
    /\ exit_code = None

\* DeleteLead, the answer of the remote and what the record was counted as
\* written down.
DeleteLeadObserved ==
    /\ pc = "delete"
    /\ idx <= Len(backup_df)
    /\ \E result \in DeleteResultsFor(backup_df[idx]) :
          /\ DeleteBody(result)
          /\ answers' = Append(answers, [answer |-> result.answer,
                                         success |-> success_count' > success_count])

\* delete_leads called a second time with the same backup_df.
DeleteAgain ==
    /\ pc = "complete"
    /\ passes < 2
    /\ pc' = "delete"
    /\ idx' = 1
    /\ success_count' = 0
    /\ failed_count' = 0
    /\ passes' = passes + 1
    /\ UNCHANGED <<request, exports, processor, target_leads, campaigns, report, filter_log,
                   filtered_campaigns, selected_campaigns, all_deletion_leads,
                   backup_df, backup_file, execution_stats, delete_calls, answers,
                   emails, exit_code>>

DelNext ==
    \/ DeleteLeadObserved
    \/ DeleteReturn
    \/ DeleteAgain

DelSpec == DelInit /\ [][DelNext]_vars

(***************************************************************************)
(* select_campaigns_for_deletion, create_deletion_backup and delete_leads   *)
(* after a filter stage over two eligible campaigns, every export of either *)
(* stage holding any reply counts, a missing one (an empty cell) included.  *)
(***************************************************************************)
ExportedReplyCounts == {0, 1, NA}

ExportedLeadLists ==
    {[k \in 1..Len(l) |-> [id |-> k, reply_count |-> l[k]]] :
        l \in SeqsUpTo(ExportedReplyCounts, MaxLeads)}

ExportedResults ==
    {ExportLeadsCsv(fs_ok, SendRequest(script), is_csv, body) :
        fs_ok \in BOOLEAN, script \in Scripts, is_csv \in BOOLEAN,
        body \in ExportedLeadLists}

EligibleCampaigns ==
    WithIds(<<[client_id |-> 5, status |-> "PAUSED",    created_at |-> Cutoff - 10],
              [client_id |-> 5, status |-> "COMPLETED", created_at |-> Cutoff]>>)

\* The state filter_and_analyze_campaigns leaves when the exports of the
\* eligible campaigns came to `es`.
BackupInit ==
    /\ pc = "select"
    /\ processor = TRUE
    /\ target_leads \in TargetValues
    /\ campaigns = EligibleCampaigns
    /\ idx = Len(campaigns) + 1
    /\ \E es \in [1..Len(EligibleCampaigns) -> ExportedResults] :
          LET body(k) == FilterBody(EligibleCampaigns[k], es[k])
          IN  /\ report = body(1).rows \o body(2).rows
              /\ filter_log = <<body(1).met, body(2).met>>
              /\ filtered_campaigns = body(1).appended \o body(2).appended
              /\ exports = [k \in 1..Len(EligibleCampaigns) |->
                               Requested("filter", EligibleCampaigns[k].id, es[k])]
    /\ request = NoRequest
    /\ selected_campaigns = <<>>
    /\ all_deletion_leads = <<>>
    /\ backup_df = <<>>
    /\ backup_file = NoFile
    /\ success_count = 0
    /\ failed_count = 0
    /\ execution_stats = [InitStats EXCEPT !.campaigns_fetched = Len(campaigns),
                                           !.campaigns_filtered = Len(filtered_campaigns)]
    /\ delete_calls = <<>>
    /\ answers = <<>>
    /\ passes = 0
    /\ emails = <<>>
    /\ exit_code = None

\* BackupCampaign over the wider exports.
BackupCampaignExported == \E export \in ExportedResults : BackupBody(export)

BackupNext ==
    \/ SelectCampaignsForDeletion
    \/ BackupCampaignExported
    \/ BackupReturn
    \/ DeleteLead
    \/ DeleteReturn
    \/ SendCompletionEmail
    \/ SendFailureEmail
    \/ MainExit

BackupSpec == BackupInit /\ [][BackupNext]_vars

\* The run is one sequential thread: whenever a step can be taken, one is.
BackupFairSpec == BackupSpec /\ WF_vars(BackupNext)

(***************************************************************************)
(* send_request followed attempt by attempt, on its own or beside a whole   *)
(* run of main.                                                             *)
(***************************************************************************)
RequestInit ==
    /\ pc = "request"
    /\ processor = FALSE
    /\ target_leads \in TargetValues
    /\ campaigns = <<>>
    /\ idx = 0
    /\ report = <<>>
    /\ filter_log = <<>>
    /\ filtered_campaigns = <<>>
    /\ selected_campaigns = <<>>
    /\ all_deletion_leads = <<>>
    /\ backup_df = <<>>
    /\ backup_file = NoFile
    /\ success_count = 0
    /\ failed_count = 0
    /\ execution_stats = InitStats
    /\ delete_calls = <<>>
    /\ answers = <<>>
    /\ passes = 0
    /\ emails = <<>>
    /\ exports = <<>>
    /\ request = NoRequest
    /\ exit_code = None

\* An attempt that returns whatever HTTP answer it gets: no
\* raise_for_status, only a transport error is retried.
RequestAttemptNoRaise ==
    /\ pc = "request"
    /\ Len(request.answers) < MAX_RETRIES
    /\ \E status \in Statuses :
          IF status = TransportError
          THEN /\ request' = [request EXCEPT !.answers = Append(@, status)]
               /\ pc' = pc
          ELSE /\ request' = [answers |-> Append(request.answers, status),
                              response |-> status, returned |-> TRUE]
               /\ pc' = "returned"
    /\ UNCHANGED <<processor, target_leads, campaigns, idx, report, filter_log,
                   filtered_campaigns, selected_campaigns, all_deletion_leads, backup_df,
                   backup_file, success_count, failed_count, execution_stats,
                   delete_calls, answers, passes, emails, exports, exit_code>>

\* One pass of send_request's loop: the attempt is answered `status`; a
\* failed attempt is logged and slept on, any other answer is returned.
RequestAttempt ==
    /\ pc = "request"
    /\ Len(request.answers) < MAX_RETRIES
    /\ \E status \in Statuses :
          IF AttemptFails(status)
          THEN /\ request' = [request EXCEPT !.answers = Append(@, status)]
               /\ pc' = pc
          ELSE /\ request' = [answers |-> Append(request.answers, status),
                              response |-> status, returned |-> TRUE]
               /\ pc' = "returned"
    /\ UNCHANGED <<processor, target_leads, campaigns, idx, report, filter_log,
                   filtered_campaigns, selected_campaigns, all_deletion_leads, backup_df,
                   backup_file, success_count, failed_count, execution_stats,
                   delete_calls, answers, passes, emails, exports, exit_code>>

\* The loop is exhausted: return None.
RequestGiveUp ==
    /\ pc = "request"
    /\ Len(request.answers) = MAX_RETRIES
    /\ request' = [request EXCEPT !.response = None, !.returned = TRUE]
    /\ pc' = "returned"
    /\ UNCHANGED <<processor, target_leads, campaigns, idx, report, filter_log,
                   filtered_campaigns, selected_campaigns, all_deletion_leads, backup_df,
                   backup_file, success_count, failed_count, execution_stats,
                   delete_calls, answers, passes, emails, exports, exit_code>>

RunInit == Init \/ RequestInit

RunNext == Next \/ RequestAttempt \/ RequestGiveUp

RunSpec == RunInit /\ [][RunNext]_vars

(***************************************************************************)
(* The claims.                                                             *)
(***************************************************************************)
\* Whether some row of `rows` is the record of the lead of a DELETE call.
HasRecord(rows, call) ==
    \E r \in 1..Len(rows) :
        rows[r].Campaign_ID = call.Campaign_ID /\ rows[r].id = call.id

\* C1: every DELETE call is for a lead whose record is in the backup file
\* already written, and while delete_leads runs the file holds the whole
\* backup set it iterates: the backup is persisted before the first record
\* is processed and no lead is deleted without a persisted record.
C1_BackupBeforeDelete ==
    /\ \A k \in 1..Len(delete_calls) :
          backup_file.written /\ HasRecord(backup_file.rows, delete_calls[k])
    /\ pc = "delete" => backup_file.written /\ backup_file.rows = backup_df

\* A DELETE call has been issued while delete_leads is still running.
C1_Witness ==
    pc = "delete" /\ delete_calls # <<>> /\ backup_file.written /\ idx <= Len(backup_df)

\* The answers recorded for pass p of delete_leads, one per record.
PassAnswers(p) ==
    [k \in 1..Len(backup_df) |-> answers[(p - 1) * Len(backup_df) + k]]

\* Pass p of delete_leads has gone over the whole backup set.
PassDone(p) == Len(answers) >= p * Len(backup_df)

NoMissingId == \A k \in 1..Len(backup_df) : ~MissingId(backup_df[k])

\* C2: a record whose DELETE call the remote answers with 404 is counted
\* as a success, one answered with a server or transport error until the
\* retries are exhausted as a failure; a backup set of two leads answered
\* 200 and 404 ends with success_count = 2 and failed_count = 0.
C2_NotFoundCountsAsSuccess ==
    /\ \A k \in 1..Len(answers) :
          /\ answers[k].answer = 404 => answers[k].success
          /\ answers[k].answer \in {500, TransportError} => ~answers[k].success
    /\ ( /\ Len(backup_df) = 2 /\ NoMissingId /\ passes = 1 /\ pc = "complete"
         /\ answers[1].answer = 200 /\ answers[2].answer = 404 )
       => success_count = 2 /\ failed_count = 0

\* C3: when a first pass of delete_leads deleted every lead of the backup
\* set (every call answered 200) and the remote answers 404 to every call
\* of the second pass over the same set, the second pass counts every row
\* as a success and none as a failure.
C3_SecondPassAllSuccess ==
    ( /\ backup_df # <<>> /\ NoMissingId /\ passes = 2 /\ pc = "complete"
      /\ \A k \in 1..Len(backup_df) :
            PassAnswers(1)[k].answer = 200 /\ PassAnswers(2)[k].answer = 404 )
    => success_count = Len(backup_df) /\ failed_count = 0

\* Campaign k of the fetched list is in filtered_campaigns / has a report
\* row / has a report row flagged "Yes" / is among the selected campaigns.
InFilteredList(k) ==
    \E j \in 1..Len(filtered_campaigns) : filtered_campaigns[j].id = campaigns[k].id

HasReportRow(k) ==
    \E r \in 1..Len(report) : report[r].Campaign_ID = campaigns[k].id

FlaggedYes(k) ==
    \E r \in 1..Len(report) :
        report[r].Campaign_ID = campaigns[k].id /\ report[r].Included_in_Filter = "Yes"

IsSelected(k) ==
    \E j \in 1..Len(selected_campaigns) :
        selected_campaigns[j].Campaign_ID = campaigns[k].id

\* The three criteria of the specification, on the campaign's own fields.
MeetsCriteria(campaign) ==
    /\ campaign.client_id # 1598
    /\ campaign.status = "PAUSED" \/ campaign.status = "COMPLETED"
    /\ campaign.created_at # BadTimestamp
    /\ Today - campaign.created_at >= DAYS_WITHOUT_ACTIVITY

\* C4: every campaign the filter loop has gone over is marked included
\* (flagged "Yes" in the report and in the returned list) exactly when its
\* client is not excluded, its status is PAUSED or COMPLETED and it was
\* created at or before the cutoff, whatever its export came to.
C4_InclusionIffCriteria ==
    \A k \in 1..Len(filter_log) :
        (FlaggedYes(k) /\ InFilteredList(k)) <=> MeetsCriteria(campaigns[k])

\* C5: once the filter loop has ended the report holds one row per input
\* campaign, in input order.
C5_OneRowPerCampaign ==
    pc # "filter" =>
        /\ Len(report) = Len(campaigns)
        /\ \A k \in 1..Len(campaigns) : report[k].Campaign_ID = campaigns[k].id

FilterFailed(k) == filter_log[k] \in {"parse_error", "export_none", "export_raised"}

\* C6 as claimed: a campaign whose timestamp parsing or lead export failed
\* is not in the returned list, is not counted in campaigns_filtered and
\* is not selected, and the loop goes over every campaign.
C6_FailedCampaignExcluded ==
    /\ \A k \in 1..Len(filter_log) :
          FilterFailed(k) => ~InFilteredList(k) /\ ~IsSelected(k)
    /\ pc # "filter" =>
          /\ Len(filter_log) = Len(campaigns)
          /\ execution_stats.campaigns_filtered =
                Cardinality({k \in 1..Len(filter_log) : filter_log[k] = "analyzed"})

\* C6 as amended: a campaign whose timestamps do not parse is in neither
\* the returned list nor the report and is not counted; a campaign whose
\* lead export fails stays in the returned list and is counted in
\* campaigns_filtered, with a zero count or no row in the report; neither
\* is ever selected, and the loop goes over every campaign.
C6_FailedCampaignNeverSelected ==
    /\ \A k \in 1..Len(filter_log) :
          /\ filter_log[k] = "parse_error" =>
                ~InFilteredList(k) /\ ~HasReportRow(k) /\ ~IsSelected(k)
          /\ filter_log[k] \in {"export_none", "export_raised"} =>
                /\ InFilteredList(k)
                /\ ~IsSelected(k)
                /\ \A r \in 1..Len(report) :
                      report[r].Campaign_ID = campaigns[k].id =>
                          report[r].No_Reply_Leads = 0
    /\ pc # "filter" =>
          /\ Len(filter_log) = Len(campaigns)
          /\ execution_stats.campaigns_filtered =
                Cardinality({k \in 1..Len(filter_log) :
                    filter_log[k] \in {"analyzed", "export_none", "export_raised"}})

\* The selection has run over a list in which one campaign failed to parse
\* or to export and a later one was selected.
C6_Witness ==
    /\ pc = "backup"
    /\ \E k, j \in 1..Len(filter_log) :
          k < j /\ FilterFailed(k) /\ IsSelected(j)

\* The rows of the report that are flagged "Yes" with a positive count.
PositiveRows == {i \in 1..Len(report) :
                    report[i].Included_in_Filter = "Yes" /\ report[i].No_Reply_Leads > 0}

RECURSIVE DescendingCounts(_)
\* The counts of the rows S of the report, largest first.
DescendingCounts(S) ==
    IF S = {} THEN <<>>
    ELSE LET top == CHOOSE i \in S :
                        \A j \in S : report[i].No_Reply_Leads >= report[j].No_Reply_Leads
         IN  <<report[top].No_Reply_Leads>> \o DescendingCounts(S \ {top})

RECURSIVE SumOf(_)
SumOf(counts) == IF counts = <<>> THEN 0 ELSE Head(counts) + SumOf(Tail(counts))

\* The length of the shortest prefix of counts whose sum reaches target,
\* the whole length when none does.
ShortestPrefix(counts, target) ==
    LET reaching == {m \in 1..Len(counts) : SumOf(SubSeq(counts, 1, m)) >= target}
    IN  IF reaching = {} THEN Len(counts)
        ELSE CHOOSE m \in reaching : \A n \in reaching : m <= n

SelectedCounts == [k \in 1..Len(selected_campaigns) |-> selected_campaigns[k].No_Reply_Leads]

\* C7: once select_campaigns_for_deletion has returned, every selected row
\* is a distinct row of the report flagged "Yes" with a positive count,
\* and the selected counts are the shortest prefix of the positive counts
\* in descending order whose sum reaches the target, or all of them when
\* their total stays below it; counts 50, 30, 20, 5 with target 70 select
\* the rows of 50 and 30.
C7_ShortestDescendingPrefix ==
    pc # "select" =>
        /\ \A k \in 1..Len(selected_campaigns) :
              /\ selected_campaigns[k].No_Reply_Leads > 0
              /\ selected_campaigns[k].Campaign_ID \in PositiveRows
              /\ selected_campaigns[k] = report[selected_campaigns[k].Campaign_ID]
              /\ \A j \in 1..Len(selected_campaigns) :
                    j # k => selected_campaigns[j].Campaign_ID # selected_campaigns[k].Campaign_ID
        /\ LET counts == DescendingCounts(PositiveRows)
           IN  SelectedCounts = SubSeq(counts, 1, ShortestPrefix(counts, target_leads))
        /\ (report = Scenario2Report /\ target_leads = 70) =>
              selected_campaigns = <<Scenario2Report[1], Scenario2Report[2]>>

\* The selection has stopped at the target before the positive rows ran out.
C7_Witness ==
    /\ pc = "backup"
    /\ SumOf(SelectedCounts) >= target_leads
    /\ \E i \in PositiveRows :
          \A k \in 1..Len(selected_campaigns) : selected_campaigns[k].Campaign_ID # i
    /\ \E i \in 1..Len(report) :
          report[i].Included_in_Filter = "Yes" /\ report[i].No_Reply_Leads = 0

\* The order of the included rows that is descending by count and keeps
\* rows of equal count in report order.
StableOrder ==
    CHOOSE p \in Orderings(IncludedIndex(report)) :
        \A j, k \in 1..Len(p) :
            j < k => \/ report[p[j]].No_Reply_Leads > report[p[k]].No_Reply_Leads
                     \/ /\ report[p[j]].No_Reply_Leads = report[p[k]].No_Reply_Leads
                        /\ p[j] < p[k]

\* C8: the selection is the one made over the included rows sorted by
\* count descending with rows of equal count in their report order.
C8_StableTieBreak ==
    pc # "select" =>
        selected_campaigns = Loc(report, SelectLoop(report, StableOrder, 1, <<>>, 0).indices)

\* run_full_process has left its try block through an exception.
Aborted == pc \in {"failed", "raised", "exit"}

\* fetch_all_campaigns returned and no campaign was retrieved.
NoCampaignsFetched == processor /\ pc \notin {"main", "fetch"} /\ campaigns = <<>>

\* filter_and_analyze_campaigns returned an empty eligible list.
NoCampaignsEligible ==
    pc \notin {"main", "fetch", "filter"} /\ campaigns # <<>> /\ filtered_campaigns = <<>>

\* select_campaigns_for_deletion returned no row.
NoCampaignsSelected ==
    /\ pc \notin {"main", "fetch", "filter", "select"}
    /\ filtered_campaigns # <<>> /\ selected_campaigns = <<>>

\* create_deletion_backup is over and found no lead to back up.
EmptyBackupSet ==
    /\ pc \notin {"main", "fetch", "filter", "select", "backup"}
    /\ selected_campaigns # <<>> /\ all_deletion_leads = <<>>

\* C9: under each of the four halting conditions run_full_process is
\* aborted: no later stage has left a trace (no report row after an empty
\* fetch, no selection after an empty eligible list, no backup set after an
\* empty selection, no backup file, no delete pass and no DELETE call in
\* any of the four), the failure email and nothing else has been sent by
\* the time the error has propagated, and main exits with status 1.
C9_HaltingConditionsAbort ==
    (NoCampaignsFetched \/ NoCampaignsEligible \/ NoCampaignsSelected \/ EmptyBackupSet) =>
        /\ Aborted
        /\ NoCampaignsFetched =>
              report = <<>> /\ filter_log = <<>> /\ filtered_campaigns = <<>>
        /\ (NoCampaignsFetched \/ NoCampaignsEligible) =>
              selected_campaigns = <<>> /\ execution_stats.campaigns_selected = 0
        /\ (NoCampaignsFetched \/ NoCampaignsEligible \/ NoCampaignsSelected) =>
              all_deletion_leads = <<>> /\ execution_stats.total_leads_exported = 0
        /\ backup_df = <<>> /\ backup_file = NoFile
        /\ passes = 0 /\ delete_calls = <<>>
        /\ execution_stats.leads_deleted_success = 0
        /\ execution_stats.leads_deleted_failed = 0
        /\ pc = "failed" => emails = <<>>
        /\ pc \in {"raised", "exit"} => emails = <<"failure">>
        /\ pc = "exit" => exit_code = 1

\* The run ended on an empty backup set after campaigns were selected.
C9_Witness ==
    /\ pc = "exit" /\ exit_code = 1
    /\ EmptyBackupSet
    /\ idx > Len(selected_campaigns)
    /\ emails = <<"failure">>

\* run_full_process is over: it returned or its exception reached main.
RunOver == processor /\ pc \in {"done", "raised", "exit"}

\* C10: a run of run_full_process attempts exactly one notification, the
\* completion email when it returns and the failure email when it raises,
\* never both and never none once it is over; none is attempted while a
\* stage is still running, and after the attempt no step changes what
\* the fetch, the exports, the backup write or the delete calls left.
C10_ExactlyOneNotification ==
    /\ [](/\ Len(emails) <= 1
          /\ RunOver => Len(emails) = 1
          /\ emails # <<>> => RunOver
          /\ pc = "done" => emails = <<"completion">>
          /\ pc = "raised" => emails = <<"failure">>)
    /\ [][emails # <<>> =>
             UNCHANGED <<request, exports, emails, campaigns, idx, report, filter_log, filtered_campaigns,
                         selected_campaigns, all_deletion_leads, backup_df, backup_file,
                         success_count, failed_count, execution_stats, delete_calls,
                         passes>>]_vars

\* The completion email went out after a delete pass and the run is over.
C10_Witness ==
    /\ pc = "exit" /\ exit_code = 0
    /\ emails = <<"completion">>
    /\ delete_calls # <<>>

\* C11: whenever main has ended with a non-zero exit status, a failure
\* email was attempted before, on every path to exit(1), the one through a
\* failure of validate_environment or setup_logging included.
C11_FailureEmailBeforeExit ==
    (pc = "exit" /\ exit_code # 0) => \E k \in 1..Len(emails) : emails[k] = "failure"

\* C12: delete_leads counts every record of the backup set exactly once,
\* whatever each record's outcome: while the loop runs the two counters add
\* up to the number of records gone over, one outcome is recorded per
\* record of each pass, and when delete_leads has finished success_count +
\* failed_count is the number of backup records and leads_deleted_success
\* + leads_deleted_failed is leads_backed_up.
C12_EveryRecordCountedOnce ==
    /\ pc = "delete" =>
          /\ success_count + failed_count = idx - 1
          /\ Len(answers) = (passes - 1) * Len(backup_df) + idx - 1
    /\ pc = "complete" =>
          /\ success_count + failed_count = Len(backup_df)
          /\ Len(answers) = passes * Len(backup_df)
          /\ execution_stats.leads_deleted_success + execution_stats.leads_deleted_failed
                = execution_stats.leads_backed_up
          /\ execution_stats.leads_backed_up = Len(backup_df)

\* A pass has finished over a set with a record lacking an identifier, a
\* record counted as failed after its call and a pass with a success.
C12_Witness ==
    /\ pc = "complete" /\ passes = 2
    /\ Len(backup_df) = 2
    /\ MissingId(backup_df[1]) /\ ~MissingId(backup_df[2])
    /\ answers[2].success /\ ~answers[4].success /\ answers[4].answer = 500
    /\ success_count = 0 /\ failed_count = 2

\* The leads of `rows` with a zero reply count and, when with_missing, the
\* ones with no reply count.
ZeroReplies(rows, with_missing) ==
    LET keep(lead) == lead.reply_count = 0 \/ (with_missing /\ lead.reply_count = NA)
    IN  SelectSeq(rows, keep)

RECURSIVE NoReplyOfExports(_, _)
\* The tagged leads of the backup-stage exports of `log`, in order, that
\* ZeroReplies keeps.
NoReplyOfExports(log, with_missing) ==
    IF log = <<>> THEN <<>>
    ELSE LET e == Head(log)
         IN  (IF e.stage = "backup" /\ e.file
              THEN Tagged(ZeroReplies(e.rows, with_missing), e.Campaign_ID)
              ELSE <<>>) \o NoReplyOfExports(Tail(log), with_missing)

\* What the analyses made so far returned, against the exports they read:
\* the counts written to the report for each filter-stage export and the
\* subsets accumulated from the backup-stage exports.
AnalysesAgree(with_missing) ==
    /\ \A k \in 1..Len(exports) :
          (exports[k].stage = "filter" /\ exports[k].file) =>
              \E r \in 1..Len(report) :
                  /\ report[r].Campaign_ID = exports[k].Campaign_ID
                  /\ report[r].Total_Leads = Len(exports[k].rows)
                  /\ report[r].No_Reply_Leads = Len(ZeroReplies(exports[k].rows, with_missing))
    /\ all_deletion_leads = NoReplyOfExports(exports, with_missing)
    /\ execution_stats.no_reply_leads_found = Len(all_deletion_leads)

\* C13 as claimed: for every exported lead set the non-responding subset
\* analyze_campaign_leads returns is the leads whose reply count is 0 or
\* missing, and the non-responding count is the size of that subset.
C13_ZeroOrMissingIsNoReply == AnalysesAgree(TRUE)

\* C13, amended: for every exported lead set the non-responding subset is
\* exactly the leads whose reply count is 0, and the non-responding count
\* is its size; a lead whose reply count is missing or greater than zero
\* is counted in the total only.
C13_ZeroIsNoReply == AnalysesAgree(FALSE)

\* The backup stage has analysed an export holding a lead without a reply
\* count and one holding a lead with a zero count, and has returned.
C13_Witness ==
    /\ pc = "delete"
    /\ all_deletion_leads # <<>>
    /\ \E k \in 1..Len(exports) :
          /\ exports[k].stage = "backup" /\ exports[k].file
          /\ \E i \in 1..Len(exports[k].rows) : exports[k].rows[i].reply_count = NA

\* The records of the backup set, of the backup file and of the DELETE
\* calls issued, as (campaign, lead) pairs.
BackedUpOrDeleted ==
    {[Campaign_ID |-> r.Campaign_ID, id |-> r.id] :
        r \in {all_deletion_leads[k] : k \in 1..Len(all_deletion_leads)}
              \cup {backup_df[k] : k \in 1..Len(backup_df)}
              \cup {backup_file.rows[k] : k \in 1..Len(backup_file.rows)}
              \cup {delete_calls[k] : k \in 1..Len(delete_calls)}}

\* The leads of the exports of `stage` that produced a file, as (campaign,
\* lead, reply count) triples.
ExportedLeads(stage) ==
    UNION {{[Campaign_ID |-> exports[k].Campaign_ID, id |-> exports[k].rows[i].id,
             reply_count |-> exports[k].rows[i].reply_count] :
               i \in 1..Len(exports[k].rows)} :
           k \in {j \in 1..Len(exports) : exports[j].stage = stage /\ exports[j].file}}

\* C14: every lead in the backup set or the backup file, and every lead a
\* DELETE call was issued for, has a reply count of exactly zero in the
\* backup-stage export of its campaign, and a lead whose reply count in
\* that export is not zero (whatever it was in the filter-stage export)
\* is neither backed up nor deleted.
C14_FreshExportDecides ==
    /\ \A r \in BackedUpOrDeleted :
          [Campaign_ID |-> r.Campaign_ID, id |-> r.id, reply_count |-> 0]
              \in ExportedLeads("backup")
    /\ \A l \in ExportedLeads("backup") :
          l.reply_count # 0 => [Campaign_ID |-> l.Campaign_ID, id |-> l.id] \notin BackedUpOrDeleted

\* A lead had a zero reply count in the filter-stage export and a positive
\* one in the backup-stage export, and delete_leads has issued a call for
\* another lead.
C14_Witness ==
    /\ pc = "complete"
    /\ delete_calls # <<>>
    /\ \E l \in ExportedLeads("backup") :
          /\ l.reply_count = 1
          /\ [l EXCEPT !.reply_count = 0] \in ExportedLeads("filter")

\* The backup-stage exports that failed: export_leads_csv returned None or
\* raised.
FailedBackupExports ==
    {k \in 1..Len(exports) :
        exports[k].stage = "backup" /\ (exports[k].raised \/ ~exports[k].file)}

\* C15: a selected campaign whose backup-stage export failed contributes
\* no lead to the backup set, the run is never aborted inside the loop over
\* the selected campaigns when another campaign's leads have been found,
\* and once create_deletion_backup has returned a backup set the persisted
\* file holds the non-responding leads of every selected campaign whose
\* export succeeded.
C15_FailedExportSkipped ==
    /\ \A k \in FailedBackupExports :
          \A r \in 1..Len(all_deletion_leads) :
              all_deletion_leads[r].Campaign_ID # exports[k].Campaign_ID
    /\ ~(Aborted /\ idx <= Len(selected_campaigns) /\ all_deletion_leads # <<>>)
    /\ pc \in {"delete", "complete"} =>
          /\ backup_file.written
          /\ backup_file.rows = NoReplyOfExports(exports, FALSE)

\* The selector ran out of campaigns with a positive count before the
\* target was reached, having selected at least one.
Shortfall ==
    /\ pc # "select"
    /\ selected_campaigns # <<>>
    /\ SumOf(SelectedCounts) < target_leads

\* The backup stage has requested an export.
BackupStageEntered == \E k \in 1..Len(exports) : exports[k].stage = "backup"

\* C16: after a shortfall with at least one campaign selected the run goes
\* on to the backup stage (it is never aborted before that stage has
\* requested an export), and when the backup set is not empty
\* delete_leads runs and the run ends with the completion email, no
\* failure email and exit status 0.
C16_ShortfallNotFailure ==
    /\ []((Shortfall /\ ~BackupStageEntered) => pc = "backup" /\ idx = 1)
    /\ []((Shortfall /\ backup_df # <<>>) =>
             /\ passes = 1
             /\ pc \in {"delete", "complete", "done", "exit"}
             /\ pc \in {"done", "exit"} => emails = <<"completion">>
             /\ pc = "exit" => exit_code = 0)
    /\ (Shortfall /\ backup_df # <<>>) ~>
           (pc = "exit" /\ exit_code = 0 /\ emails = <<"completion">>)

\* A run with a shortfall has deleted a lead and ended with the completion
\* email.
C16_Witness ==
    /\ Shortfall
    /\ pc = "exit" /\ exit_code = 0
    /\ delete_calls # <<>>
    /\ emails = <<"completion">>

\* The record the j-th outcome written down belongs to.
RecordOf(j) == backup_df[((j - 1) % Len(backup_df)) + 1]

RECURSIVE CallsFor(_)
\* The DELETE calls for the first n outcomes when each record with both
\* identifiers gets one call and each record lacking one gets none.
CallsFor(n) ==
    IF n = 0 THEN <<>>
    ELSE CallsFor(n - 1) \o
         (IF MissingId(RecordOf(n)) THEN <<>>
          ELSE <<[Campaign_ID |-> RecordOf(n).Campaign_ID, id |-> RecordOf(n).id]>>)

\* The outcomes of the running pass that were counted as failed.
FailedInPass ==
    {j \in ((passes - 1) * Len(backup_df) + 1)..Len(answers) : ~answers[j].success}

\* C17: a record lacking its campaign ID or lead ID is counted as failed
\* at once and gets no DELETE call, and each record with both identifiers
\* gets exactly one call per pass of delete_leads, in record order.
C17_MissingIdNoCall ==
    /\ \A j \in 1..Len(answers) :
          MissingId(RecordOf(j)) => ~answers[j].success /\ answers[j].answer = None
    /\ delete_calls = CallsFor(Len(answers))
    /\ failed_count = Cardinality(FailedInPass)

\* delete_leads has gone over a record lacking an identifier and then
\* issued the call for a record having both.
C17_Witness ==
    /\ Len(backup_df) = 2
    /\ MissingId(backup_df[1]) /\ ~MissingId(backup_df[2])
    /\ Len(answers) = 2
    /\ Len(delete_calls) = 1
    /\ failed_count > 0

\* The answers of a call followed attempt by attempt, as the script of the
\* remote they are the beginning of.
ScriptOf(given) ==
    [a \in 1..MAX_RETRIES |-> IF a <= Len(given) THEN given[a] ELSE TransportError]

\* An answer that is a transport error or a non-success HTTP status.
Unsuccessful(status) == status = TransportError \/ status \in {404, 500}

\* How many steps the call or the run can still take at most.
StepsLeft ==
    LET width == MaxCampaigns * (MaxLeads + 1) + 2
        stage == CASE pc = "main"     -> 11
                   [] pc = "fetch"    -> 10
                   [] pc = "filter"   -> 9
                   [] pc = "select"   -> 8
                   [] pc = "backup"   -> 7
                   [] pc = "delete"   -> 6
                   [] pc = "complete" -> 5
                   [] pc = "done"     -> 4
                   [] pc = "failed"   -> 3
                   [] pc = "raised"   -> 2
                   [] OTHER           -> 1
    IN  IF pc = "request" THEN MAX_RETRIES + 1 - Len(request.answers)
        ELSE IF pc = "returned" THEN 0
        ELSE stage * width + (width - idx)

\* C18: send_request makes at most MAX_RETRIES attempts; it returns the
\* response of the first attempt that does not fail, making no attempt
\* after it, and returns None exactly when every one of the MAX_RETRIES
\* attempts ended in a transport error or a non-success status; the call
\* and the whole run terminate: every step lowers a natural-number bound
\* on the steps left, a step is possible until the call has returned or
\* main has exited, and a run that exits after creating the processor has
\* gone through the completion or the failure path.
C18_SendRequestTerminates ==
    /\ [](/\ Len(request.answers) <= MAX_RETRIES
          /\ \A a \in 1..Len(request.answers) :
                (a < Len(request.answers) \/ ~request.returned \/ request.response = None)
                    => Unsuccessful(request.answers[a])
          /\ request.returned =>
                /\ pc = "returned"
                /\ request.response = SendRequest(ScriptOf(request.answers))
                /\ (request.response = None) <=>
                      /\ Len(request.answers) = MAX_RETRIES
                      /\ \A a \in 1..MAX_RETRIES : Unsuccessful(request.answers[a])
                /\ request.response # None =>
                      /\ request.response = request.answers[Len(request.answers)]
                      /\ ~Unsuccessful(request.response))
    /\ [](StepsLeft \in Nat)
    /\ [][StepsLeft' < StepsLeft]_vars
    /\ [](pc \notin {"returned", "exit"} => ENABLED RunNext)
    /\ []((pc = "exit" /\ processor) =>
             emails \in {<<"completion">>, <<"failure">>})

\* A call has returned the response of its third attempt after two failed
\* ones.
C18_Witness ==
    /\ pc = "returned"
    /\ Len(request.answers) = 3
    /\ request.response = 200
    /\ request.answers[1] = 500 /\ request.answers[2] = TransportError

\* The fetched campaign with identifier `campaign_id` is one the run may
\* touch: its report row is flagged "Yes" and it meets the three criteria.
MarkedIncluded(campaign_id) ==
    \E k \in 1..Len(campaigns) :
        /\ campaigns[k].id = campaign_id
        /\ FlaggedYes(k)
        /\ MeetsCriteria(campaigns[k])

\* C19: every lead in the backup set or the backup file, and every lead a
\* DELETE call was issued for, belongs to a campaign that is flagged "Yes"
\* in the report, meets the three criteria and was selected; and every
\* lead export requested, in the filter stage or in the backup stage, is
\* for a campaign that meets the three criteria, the backup-stage ones
\* for a selected campaign.
C19_OnlySelectedCampaignsTouched ==
    /\ \A r \in BackedUpOrDeleted :
          /\ MarkedIncluded(r.Campaign_ID)
          /\ \E j \in 1..Len(selected_campaigns) :
                selected_campaigns[j].Campaign_ID = r.Campaign_ID
    /\ \A k \in 1..Len(exports) :
          /\ \E c \in 1..Len(campaigns) :
                campaigns[c].id = exports[k].Campaign_ID /\ MeetsCriteria(campaigns[c])
          /\ exports[k].stage = "backup" =>
                /\ MarkedIncluded(exports[k].Campaign_ID)
                /\ \E j \in 1..Len(selected_campaigns) :
                      selected_campaigns[j].Campaign_ID = exports[k].Campaign_ID

\* A run over an eligible campaign and one that is not has issued a DELETE
\* call and finished delete_leads.
C19_Witness ==
    /\ pc = "complete"
    /\ delete_calls # <<>>
    /\ \E k \in 1..Len(campaigns) :
          TimestampsParse(campaigns[k]) /\ ~MeetsCriteria(campaigns[k])

====
